---- MODULE Spec2Model ----
(***************************************************************************)
(* Model of blender/export.py: the load_post handler export().             *)
(*                                                                         *)
(* Strings that the handler inspects character by character (startswith,  *)
(* rstrip, removesuffix) are sequences of one-character strings.           *)
(* The Blender data the handler reads (objects, their instance             *)
(* collections, the collections' libraries and members) is the state;      *)
(* one step of the model is the argument parsing, one iteration of the     *)
(* loop over bpy.data.objects, or the call of the glTF exporter.           *)
(***************************************************************************)
EXTENDS Integers, Sequences, FiniteSets, TLC

\* ------------------------------------------------------------ bounds
\* number of objects in bpy.data.objects when the handler starts
NumObjects == 3
\* longest sys.argv explored
MaxArgs == 3

\* ------------------------------------------------------------ strings
\* an optional value (a Python reference that may be None) is a sequence of
\* at most one element
None == <<>>
Some(x) == <<x>>
Value(opt) == opt[1]

Sep == <<"-", "-">>
DebugFlag == <<"-", "-", "d", "e", "b", "u", "g">>
Dash == <<"-">>
Slash == <<"/">>
Dot == <<".">>
BlendSuffix == <<".", "b", "l", "e", "n", "d">>

\* str.startswith(prefix)
StartsWith(s, prefix) ==
    /\ Len(s) >= Len(prefix)
    /\ SubSeq(s, 1, Len(prefix)) = prefix

\* str.endswith(suffix)
EndsWith(s, suffix) ==
    /\ Len(s) >= Len(suffix)
    /\ SubSeq(s, Len(s) - Len(suffix) + 1, Len(s)) = suffix

\* a mutated rstrip: drops one trailing character at most
RStripOnce(s, ch) ==
    IF s # <<>> /\ s[Len(s)] = ch THEN SubSeq(s, 1, Len(s) - 1) ELSE s

\* str.rstrip(ch) for a one-character ch: drops every trailing ch
RECURSIVE RStrip(_, _)
RStrip(s, ch) ==
    IF s # <<>> /\ s[Len(s)] = ch THEN RStrip(SubSeq(s, 1, Len(s) - 1), ch) ELSE s

\* a mutated removesuffix: keeps the string as it is
KeepSuffix(s, suffix) == s

\* str.removesuffix(suffix)
RemoveSuffix(s, suffix) ==
    IF suffix # <<>> /\ EndsWith(s, suffix)
    THEN SubSeq(s, 1, Len(s) - Len(suffix))
    ELSE s

\* bpy.path.basename: what follows the last "/"
RECURSIVE Basename(_)
Basename(path) ==
    IF path = <<>> \/ path[Len(path)] = "/" THEN <<>>
    ELSE Basename(SubSeq(path, 1, Len(path) - 1)) \o <<path[Len(path)]>>

\* ------------------------------------------------------------ the scene
Objects == 1..NumObjects
\* a collection is identified by its name (instance_collection.name)
Collections == {"Tree", "Rock"}
\* the name of the library a collection comes from, when it is linked
LibraryOf(c) ==
    IF c = "Tree" THEN <<"k", "i", "t", ".", "b", "l", "e", "n", "d">>
    ELSE <<"s", "e", "t">>
\* bpy.data.filepath
BlendFilepath == <<"/", "a", "/", "l", "v", ".", "b", "l", "e", "n", "d">>

\* ------------------------------------------------------------ sys.argv
Tokens ==
    { Sep, DebugFlag,
      <<"o", "u", "t">>, <<"o", "/">>, <<"o", "/", "/">>,
      <<"-", "o">>, <<"/">>, <<>> }

ArgLists == UNION { [1..n -> Tokens] : n \in 0..MaxArgs }

SceneArgLists ==
    { <<DebugFlag>>,
      <<Sep, <<"o", "/">>, DebugFlag>> }

VARIABLES
    argv,                \* sys.argv
    target_dir,          \* line 14
    is_debug_mode,       \* line 16
    caught,              \* the exception the try block swallowed, if any
    instance_collection, \* obj.instance_collection (the collection's name)
    library,             \* collection.library (the library's name)
    members,             \* collection.objects
    objects,             \* bpy.data.objects
    link,                \* obj["link"]
    pending,             \* objects the iteration of line 32 has yet to yield
    visited,             \* objects the loop body has run for
    live,                \* whether the iteration drops removed objects
    removals,            \* every call of bpy.data.objects.remove
    exported,            \* the arguments of bpy.ops.export_scene.gltf
    exportCalls,         \* how often the exporter was called
    pc

vars == <<argv, target_dir, is_debug_mode, caught, instance_collection, library,
          members, objects, link, pending, visited, live, removals, exported,
          exportCalls, pc>>

sceneVars == <<instance_collection, library, members>>

\* ------------------------------------------------------------ lines 14-25
\* x in seq
HasItem(seq, x) == \E i \in DOMAIN seq : seq[i] = x

\* list.index(x), counted from 1; defined when x is in seq (otherwise
\* list.index raises ValueError, see ParseRaises)
Index(seq, x) ==
    CHOOSE i \in DOMAIN seq : seq[i] = x /\ \A j \in 1..(i - 1) : seq[j] # x

\* line 18: sys.argv[sys.argv.index("--") + 1:]
ArgsAfter(av) == SubSeq(av, Index(av, Sep) + 1, Len(av))

\* the exception lines 18-22 raise: list.index on a missing "--" (line 18),
\* args[0] on an empty list (line 19)
ParseRaises(av) ==
    IF ~HasItem(av, Sep) THEN "ValueError"
    ELSE IF ArgsAfter(av) = <<>> THEN "IndexError"
    ELSE "none"

\* a mutated handler: except IndexError
CatchesIndexErrorOnly(exc) == exc = "IndexError"

\* line 23: except Exception
Catches(exc) == exc \in {"ValueError", "IndexError"}

\* lines 14, 19-20: target_dir when the try block is left
ParsedDir(av) ==
    IF ParseRaises(av) # "none" THEN Dot
    ELSE IF ~StartsWith(ArgsAfter(av)[1], Dash) THEN RStrip(ArgsAfter(av)[1], "/")
    ELSE Dot

\* a mutated line 21: "--debug" in sys.argv
ParsedDebugAnywhere(av) == HasItem(av, DebugFlag)

\* lines 16, 21-22: is_debug_mode when the try block is left
ParsedDebug(av) ==
    IF ParseRaises(av) # "none" THEN FALSE ELSE HasItem(ArgsAfter(av), DebugFlag)

\* lines 17-25
Parse ==
    /\ pc = "parse"
    /\ target_dir' = ParsedDir(argv)
    /\ is_debug_mode' = ParsedDebug(argv)
    /\ caught' = IF Catches(ParseRaises(argv)) THEN ParseRaises(argv) ELSE "none"
    /\ pc' = IF ParseRaises(argv) # "none" /\ ~Catches(ParseRaises(argv))
             THEN "raised" ELSE "loop"
    /\ UNCHANGED <<argv, sceneVars, objects, link, pending, visited, live,
                   removals, exported, exportCalls>>

\* lines 27-28
TargetFile == RemoveSuffix(Basename(BlendFilepath), BlendSuffix)

\* ------------------------------------------------------------ lines 32-40
\* line 33, negated: the object is not skipped
IsLinkedInstance(obj) ==
    /\ instance_collection[obj] # None
    /\ library[Value(instance_collection[obj])] # None

\* lines 35-38
Marker(obj) ==
    [ source |-> RemoveSuffix(Value(library[Value(instance_collection[obj])]),
                              BlendSuffix),
      name   |-> Value(instance_collection[obj]) ]

\* a mutated line 40: remove(obj)
RemoveReferencing(objs, obj) ==
    IF members[Value(instance_collection[obj])] = {} THEN objs ELSE objs \ {obj}

\* a mutated lines 39-40: the loop stops after its first removal
RemoveFirstContained(objs, obj) ==
    IF members[Value(instance_collection[obj])] = {} THEN objs
    ELSE objs \ {CHOOSE m \in members[Value(instance_collection[obj])] : TRUE}

\* lines 39-40: bpy.data.objects after every member was removed
RemoveContained(objs, obj) == objs \ members[Value(instance_collection[obj])]

\* a mutated lines 39-40: remove is called for the objects still there only
GuardedRemoveCalls(objs, obj) ==
    { [by |-> obj, target |-> m, present |-> TRUE] :
        m \in members[Value(instance_collection[obj])] \cap objs }

\* lines 39-40: the calls of bpy.data.objects.remove, and whether the
\* object was in bpy.data.objects when the pass reached the referencing object
RemoveCalls(objs, obj) ==
    { [by |-> obj, target |-> m, present |-> (m \in objs)] :
        m \in members[Value(instance_collection[obj])] }

\* line 32: what the iteration over bpy.data.objects still yields after the
\* body ran for obj. The collection is modified while it is iterated: the
\* iteration either drops the removed objects or still yields them.
NextPending(pend, obj, objs) ==
    IF live THEN (pend \ {obj}) \cap objs ELSE pend \ {obj}

\* a mutated lines 33-40: the library is looked at after the removals only
SkipObjectRemoving(obj) ==
    /\ pc = "loop"
    /\ obj \in pending
    /\ ~IsLinkedInstance(obj)
    /\ objects' = IF instance_collection[obj] = None THEN objects
                  ELSE RemoveContained(objects, obj)
    /\ pending' = NextPending(pending, obj, objects')
    /\ visited' = visited \cup {obj}
    /\ UNCHANGED <<argv, target_dir, is_debug_mode, caught, sceneVars,
                   link, live, removals, exported, exportCalls, pc>>

\* lines 33-34: continue
SkipObject(obj) ==
    /\ pc = "loop"
    /\ obj \in pending
    /\ ~IsLinkedInstance(obj)
    /\ pending' = NextPending(pending, obj, objects)
    /\ visited' = visited \cup {obj}
    /\ UNCHANGED <<argv, target_dir, is_debug_mode, caught, sceneVars, objects,
                   link, live, removals, exported, exportCalls, pc>>

\* lines 35-40
LinkObject(obj) ==
    /\ pc = "loop"
    /\ obj \in pending
    /\ IsLinkedInstance(obj)
    /\ link' = [link EXCEPT ![obj] = Some(Marker(obj))]
    /\ objects' = RemoveContained(objects, obj)
    /\ removals' = removals \cup RemoveCalls(objects, obj)
    /\ pending' = NextPending(pending, obj, objects')
    /\ visited' = visited \cup {obj}
    /\ UNCHANGED <<argv, target_dir, is_debug_mode, caught, sceneVars, live,
                   exported, exportCalls, pc>>

Skip == \E obj \in Objects : SkipObject(obj)

Link == \E obj \in Objects : LinkObject(obj)

\* ------------------------------------------------------------ lines 42-63
\* a mutated line 46: the two formats swapped
ExportFormatSwapped(debug) == IF debug THEN "GLB" ELSE "GLTF_SEPARATE"

\* line 46
ExportFormat(debug) == IF ~debug THEN "GLB" ELSE "GLTF_SEPARATE"

\* line 47
ExportImageFormat(debug) == IF ~debug THEN "AUTO" ELSE "NONE"

\* lines 44-62: the keyword arguments of bpy.ops.export_scene.gltf
ExportArgs(dir, debug) ==
    [ filepath                       |-> dir \o Slash \o TargetFile,
      check_existing                 |-> FALSE,
      export_format                  |-> ExportFormat(debug),
      export_image_format            |-> ExportImageFormat(debug),
      use_visible                    |-> FALSE,
      export_extras                  |-> TRUE,
      export_skins                   |-> TRUE,
      export_animations              |-> TRUE,
      export_def_bones               |-> TRUE,
      export_morph                   |-> TRUE,
      export_optimize_animation_size |-> TRUE,
      export_yup                     |-> FALSE,
      export_texcoords               |-> TRUE,
      export_normals                 |-> TRUE,
      export_tangents                |-> FALSE,
      export_morph_normal            |-> TRUE,
      export_morph_tangent           |-> FALSE,
      export_materials               |-> "EXPORT",
      export_colors                  |-> FALSE ]

\* a mutated control flow: the exporter is called inside the loop
LoopRunning(pend) == TRUE

\* line 32: the for loop is left when the iteration yields nothing more
LoopFinished(pend) == pend = {}

\* lines 42-63
Export ==
    /\ pc = "loop"
    /\ LoopFinished(pending)
    /\ exported' = Some(ExportArgs(target_dir, is_debug_mode))
    /\ exportCalls' = exportCalls + 1
    /\ pc' = "done"
    /\ UNCHANGED <<argv, target_dir, is_debug_mode, caught, sceneVars, objects,
                   link, pending, visited, live, removals>>

\* ------------------------------------------------------------ specifications
\* the state when the handler is entered (lines 14 and 16 are the defaults)
InitHandler ==
    /\ target_dir = Dot
    /\ is_debug_mode = FALSE
    /\ caught = "none"
    /\ objects = Objects
    /\ link = [o \in Objects |-> None]
    /\ pending = Objects
    /\ visited = {}
    /\ removals = {}
    /\ exported = None
    /\ exportCalls = 0
    /\ pc = "parse"

\* every scene over Objects and Collections, a few argument lists
Init ==
    /\ InitHandler
    /\ argv \in SceneArgLists
    /\ instance_collection \in [Objects -> {None} \cup {Some(c) : c \in Collections}]
    /\ library \in { [c \in Collections |-> IF c \in L THEN Some(LibraryOf(c)) ELSE None] :
                      L \in SUBSET Collections }
    /\ members \in [Collections -> SUBSET Objects]
    /\ live \in BOOLEAN

\* every argument list up to MaxArgs tokens, one scene: object 1 is an
\* instance of the linked collection Tree, whose members are the other objects
InitArgs ==
    /\ InitHandler
    /\ argv \in ArgLists
    /\ instance_collection = [o \in Objects |-> IF o = 1 THEN Some("Tree") ELSE None]
    /\ library = [c \in Collections |-> IF c = "Tree" THEN Some(LibraryOf(c)) ELSE None]
    /\ members = [c \in Collections |-> IF c = "Tree" THEN Objects \ {1} ELSE {}]
    /\ live \in BOOLEAN

Next == Parse \/ Skip \/ Link \/ Export

Spec == Init /\ [][Next]_vars

SpecArgs == InitArgs /\ [][Next]_vars

\* ------------------------------------------------------------ properties
\* the loop of lines 32-40 is over: the exporter is about to be called, or was
PassCompleted == pc = "done" \/ (pc = "loop" /\ pending = {})

\* obj references an instance collection that a library backs
ReferencesLinked(obj) ==
    /\ instance_collection[obj] # <<>>
    /\ library[instance_collection[obj][1]] # <<>>

\* the collection obj is an instance of
CollectionOf(obj) == instance_collection[obj][1]

\* the objects that are in bpy.data.objects or that the loop body ran for
SceneObjects == objects \cup visited

NoArgumentAfterSeparator == \A i \in DOMAIN argv : argv[i] = Sep => i = Len(argv)

\* C2: without "--" in sys.argv, or with nothing after it, parsing raises
\* nothing and leaves target_dir "." and is_debug_mode False.
C2_DefaultsWithoutArguments ==
    (pc # "parse" /\ NoArgumentAfterSeparator) =>
        /\ pc # "raised"
        /\ target_dir = <<".">>
        /\ is_debug_mode = FALSE

\* C2 happens: "--debug" and a directory are given, but no "--" before them
C2_Witness ==
    /\ pc = "done"
    /\ argv = <<DebugFlag, <<"o", "u", "t">>>>
    /\ caught = "ValueError"

\* d is a with its trailing "/" characters dropped
IsRightStripped(d, a) ==
    /\ Len(d) <= Len(a)
    /\ \A i \in 1..Len(d) : d[i] = a[i]
    /\ \A i \in (Len(d) + 1)..Len(a) : a[i] = "/"
    /\ d = <<>> \/ d[Len(d)] # "/"

\* C3: with "--" in sys.argv and an argument after the first one, target_dir
\* is that argument without its trailing "/" characters when it does not
\* start with "-", and stays "." when it does.
C3_DirectoryFromFirstArgument ==
    pc # "parse" =>
        \A i \in DOMAIN argv :
            (/\ argv[i] = Sep
             /\ \A j \in 1..(i - 1) : argv[j] # Sep
             /\ i < Len(argv)) =>
                IF argv[i + 1] # <<>> /\ argv[i + 1][1] = "-"
                THEN target_dir = <<".">>
                ELSE IsRightStripped(target_dir, argv[i + 1])

\* C3 happens: two trailing "/" are dropped
C3_Witness ==
    /\ pc = "done"
    /\ \E i \in DOMAIN argv :
        /\ i < Len(argv)
        /\ argv[i] = Sep
        /\ argv[i + 1] = <<"o", "/", "/">>
    /\ target_dir = <<"o">>

\* C4, as claimed: debug mode is on exactly when "--debug" is anywhere in
\* the argument list.
C4_DebugAnywhere ==
    pc # "parse" => (is_debug_mode <=> \E i \in DOMAIN argv : argv[i] = DebugFlag)

\* C4, amended: debug mode is on exactly when "--debug" is among the arguments
\* that follow a "--".
C4_DebugAfterSeparator ==
    pc # "parse" =>
        (is_debug_mode <=>
            \E i, j \in DOMAIN argv : i < j /\ argv[i] = Sep /\ argv[j] = DebugFlag)

\* C4 happens: "--debug" is the last argument after "--" and a directory
C4_Witness ==
    /\ pc = "done"
    /\ argv = <<Sep, <<"o", "/">>, DebugFlag>>
    /\ is_debug_mode = TRUE

\* src is lib without a trailing ".blend"
IsLibraryBaseName(src, lib) ==
    IF /\ Len(lib) >= 6
       /\ \A i \in 1..6 : lib[Len(lib) - 6 + i] = <<".", "b", "l", "e", "n", "d">>[i]
    THEN src \o <<".", "b", "l", "e", "n", "d">> = lib
    ELSE src = lib

\* C5: after the pass, every scene object (as in C1) that references a linked
\* instance collection carries "link", whose "source" is the library's name
\* without ".blend" and whose "name" is the collection's name.
C5_LinkMarker ==
    PassCompleted =>
        \A o \in SceneObjects :
            ReferencesLinked(o) =>
                /\ link[o] # <<>>
                /\ link[o][1].name = CollectionOf(o)
                /\ IsLibraryBaseName(link[o][1].source, library[CollectionOf(o)][1])

\* C5 happens: an instance of a collection of kit.blend is marked
C5_Witness ==
    /\ pc = "done"
    /\ \E o \in objects :
        /\ ReferencesLinked(o)
        /\ link[o] = << [source |-> <<"k", "i", "t">>, name |-> "Tree"] >>

\* C6: the loop body, run for an object without instance collection or with a
\* local one, adds no marker and removes nothing; a scene without linked
\* instances keeps its objects and custom properties.
C6_LocalObjectsUntouched ==
    /\ [][\A o \in Objects :
            (/\ o \notin visited
             /\ visited' = visited \cup {o}
             /\ ~ReferencesLinked(o)) =>
                /\ objects' = objects
                /\ link' = link
                /\ removals' = removals]_vars
    /\ []((\A o \in Objects : ~ReferencesLinked(o)) =>
            /\ objects = Objects
            /\ link = [o \in Objects |-> <<>>]
            /\ removals = {})

\* C6 happens: every object is an instance of a local collection that has
\* members, and the pass is over
C6_Witness ==
    /\ pc = "done"
    /\ visited = Objects
    /\ \A o \in Objects :
        /\ instance_collection[o] # <<>>
        /\ library[CollectionOf(o)] = <<>>
        /\ members[CollectionOf(o)] # {}

\* C7: the exporter gets GLB, image format AUTO and no vertex colours without
\* debug mode, GLTF_SEPARATE and image format NONE with it.
C7_ExportConfiguration ==
    exported # <<>> =>
        IF is_debug_mode
        THEN /\ exported[1].export_format = "GLTF_SEPARATE"
             /\ exported[1].export_image_format = "NONE"
        ELSE /\ exported[1].export_format = "GLB"
             /\ exported[1].export_image_format = "AUTO"
             /\ exported[1].export_colors = FALSE

\* C7 happens: an export in debug mode
C7_Witness ==
    /\ exported # <<>>
    /\ is_debug_mode = TRUE
    /\ exported[1].export_format = "GLTF_SEPARATE"

\* C8: whatever sys.argv is, the exporter is called once, after the loop
\* body ran for every object of the scene: a run never ends without the
\* call, and a failed parse does not prevent it.
C8_ExportedOnceAfterPass ==
    /\ exportCalls <= 1
    /\ exportCalls = 1 => (pending = {} /\ objects \subseteq visited)
    /\ pc # "raised"
    /\ (~ENABLED Next) => exportCalls = 1

\* C8 happens: parsing failed and the exporter was called
C8_Witness ==
    /\ pc = "done"
    /\ caught = "IndexError"
    /\ exportCalls = 1
    /\ visited # {}

\* C9: when the loop body has run for two objects that reference the same
\* linked collection, remove was called for every member once for each of
\* them, and for one of the two every member was already removed.
C9_MembersRemovedTwice ==
    \A o1, o2 \in visited :
        (/\ o1 # o2
         /\ ReferencesLinked(o1)
         /\ ReferencesLinked(o2)
         /\ CollectionOf(o1) = CollectionOf(o2)) =>
            /\ \A o \in {o1, o2} : \A m \in members[CollectionOf(o1)] :
                 \E p \in BOOLEAN : [by |-> o, target |-> m, present |-> p] \in removals
            /\ \E o \in {o1, o2} : \A m \in members[CollectionOf(o1)] :
                 [by |-> o, target |-> m, present |-> FALSE] \in removals

\* C9 happens: two instances of one linked collection with a member, visited
C9_Witness ==
    \E o1, o2 \in visited : \E m \in Objects \ {o1, o2} :
        /\ o1 # o2
        /\ ReferencesLinked(o1)
        /\ ReferencesLinked(o2)
        /\ CollectionOf(o1) = CollectionOf(o2)
        /\ m \in members[CollectionOf(o1)]
        /\ [by |-> o1, target |-> m, present |-> TRUE] \in removals
        /\ [by |-> o2, target |-> m, present |-> FALSE] \in removals

\* C10: every object removed from bpy.data.objects is a member of a linked
\* instance collection that an object of the scene references.
C10_OnlyLinkedMembersRemoved ==
    (Objects \ objects) \subseteq
        UNION { members[CollectionOf(o)] : o \in {x \in Objects : ReferencesLinked(x)} }

\* C10 happens: a member was removed, and an object that is in a local
\* collection only is still there after the pass
C10_Witness ==
    /\ pc = "done"
    /\ objects # Objects
    /\ \E o \in objects : \E c \in Collections :
        /\ library[c] = <<>>
        /\ o \in members[c]
        /\ \E r \in Objects : instance_collection[r] = <<c>>

====
